---- MODULE Spec2Model ----
(***************************************************************************)
(* A model of the tool-catalog backend (2fa-authentication): the request   *)
(* handlers of the routers auth, tools, admin and ratings_comments over    *)
(* the relational tables, the key-value cache and the audit log.           *)
(*                                                                         *)
(* Every handler is one atomic action (requests handled one at a time).    *)
(* Tables are sets of rows; comment_votes, whose primary key no handler    *)
(* reads, is the bag of its rows without the key.  Nullable integer        *)
(* columns use 0 for NULL, nullable text columns use the string "NULL".    *)
(*                                                                         *)
(* The request schemas of app/schemas/rating_comment.py name the comment   *)
(* text `content` and the vote `vote`; the handlers read `comment` and     *)
(* `vote_type`.  The model follows the handlers: the value the request     *)
(* carries is the one the handler reads.                                   *)
(***************************************************************************)
EXTENDS Integers, Sequences, FiniteSets, Bags, TLC

VARIABLES
    users,      \* table users: rows [id, username, email, hashed_password, role, is_2fa_enabled, telegram_id]
    tools,      \* table tools: rows [id, name, category, status, created_by, approved_by, rejection_reason]
    ratings,    \* table tool_ratings: rows [id, tool_id, user_id, rating]
    comments,   \* table tool_comments: rows [id, tool_id, user_id, comment, upvotes, downvotes]
    votes,      \* table comment_votes: the bag of rows [comment_id, user_id, vote_type]
    cache,      \* the key-value cache: a function from the keys present to their values
    audit,      \* the audit log: the sequence of entries written by audit_service.log_action
    tokens,     \* the access tokens issued so far: [sub, pending]
    nextId,     \* the next primary key of each table with auto-increment ids
    resp,       \* the request handled last and its response
    inflight,   \* the requests that have run their queries and not yet written
    noted       \* the codes callers have kept from the notifier's messages: [to, code]

vars == <<users, tools, ratings, comments, votes, cache, audit, tokens, nextId, resp,
          inflight, noted>>

(***************************************************************************)
(* Bounds of the model.                                                    *)
(***************************************************************************)
\* Requests that write an audit entry, beyond the entries of the seeded state.
MaxOps == 3
\* Rows of the users table.
MaxUsers == 3
\* Rows of the tool_comments table.
MaxComments == 1
\* Requests that have run their queries and not yet written.
MaxInflight == 2
\* Codes callers have kept from the notifier's messages.
MaxNoted == 2

(***************************************************************************)
(* Values the requests draw their inputs from.                             *)
(***************************************************************************)
NoId == 0
NULL == "NULL"

Usernames == {"alice", "carol"}
Emails == {"alice@x", "carol@x"}
Passwords == {"pw1", "pw2"}
\* The password a new user registers with.
NewPasswords == {"pw2"}
\* Codes telegram_service.generate_code can return, and codes a caller can submit.
Codes == {"111111", "222222"}
SubmittedCodes == Codes \cup {"000000"}
\* Chat ids a caller can submit to enable-2fa.
ChatIds == {"chat1"}
\* Path parameters: the ids of rows that exist, existed or can exist.
ToolIds == {1, 2}
CommentIds == {1, 2}
RatingValues == {2, 5}
\* Values a request body can carry in `rating`, the schema's range or not.
SubmittedRatings == {0, 1, 5, 6}
CommentTexts == {"first text", "second text"}
\* The text a new comment is posted with.
NewCommentTexts == {"first text"}
VoteTypes == {"upvote", "downvote"}
\* (skip, limit) pairs of get_tool_comments; (0, 50) is the handler's default.
Pages == {<<0, 50>>}

Roles == {"user", "moderator", "admin"}
\* ToolCategory and ToolStatus.
ToolCategories == {"development", "design", "productivity", "communication",
                   "analytics", "other"}
ToolStatuses == {"pending", "approved", "rejected"}
\* What create_tool and approve_tool requests carry.
NewToolNames == {"tool three"}
\* (category, status) filters of get_tools, NULL for a filter left out, and
\* its default (skip, limit).
ToolFilters == {<<NULL, NULL>>, <<NULL, "approved">>}
ToolPages == {<<0, 100>>}
NewToolCategories == {"other"}
\* Bodies of update_tool requests: the fields of ToolUpdate the caller sets.
ToolUpdates == {[name |-> "tool renamed", category |-> "other"]}
Reasons == {"spam"}

(***************************************************************************)
(* Responses.                                                              *)
(***************************************************************************)
\* A handled request: the handler, the caller, the row the path names, the
\* request body, and the response.  `branch` names the path the handler took
\* where it has more than one that succeeds.
Response(op, user, target, arg, status, body) ==
    [op |-> op, user |-> user, target |-> target, arg |-> arg,
     status |-> status, body |-> body, branch |-> ""]

Branch(response, branch) == [response EXCEPT !.branch = branch]

HTTPException(op, user, target, arg, status, detail) ==
    Response(op, user, target, arg, status, [detail |-> detail])

(***************************************************************************)
(* The services the handlers call: cache, audit log, password hashing.     *)
(***************************************************************************)
\* cache_service.get: the key is present.
cache_has(c, key) == key \in DOMAIN c

cache_set(c, key, value) ==
    [k \in DOMAIN c \cup {key} |-> IF k = key THEN value ELSE c[k]]

cache_delete(c, key) == [k \in DOMAIN c \ {key} |-> c[k]]

\* A key is the sequence of its colon-separated parts; the pattern "p1:..:pn:*"
\* matches the keys that have p1..pn as their first parts and something after.
IsPrefix(prefix, key) ==
    /\ Len(key) > Len(prefix)
    /\ \A i \in 1..Len(prefix) : key[i] = prefix[i]

clear_pattern(c, prefix) ==
    [k \in {x \in DOMAIN c : ~IsPrefix(prefix, x)} |-> c[k]]

\* `if cached:` on what cache_service.get returns: None for a missing key, and
\* a stored value that Python takes as true (an empty list is not).
Truthy(value) == IF "items" \in DOMAIN value THEN value.items # <<>> ELSE TRUE
Cached(c, key) == cache_has(c, key) /\ Truthy(c[key])

log_action(log, user_id, action, entity_type, entity_id) ==
    Append(log, [user_id |-> user_id, action |-> action,
                 entity_type |-> entity_type, entity_id |-> entity_id])

hash_password(password) == <<"hash", password>>
verify_password(password, hashed) == hashed = hash_password(password)

\* Cache keys, as the handlers' f-strings build them.
Key2fa(user_id) == <<"2fa", ToString(user_id)>>
KeyRatingStats(tool_id) == <<"rating", "stats", ToString(tool_id)>>
KeyComments(tool_id, skip, limit) ==
    <<"comments", ToString(tool_id), ToString(skip), ToString(limit)>>
KeyAdminStats == <<"admin", "stats", "overview">>
KeyToolsStats == <<"tools", "stats">>
\* f"tools:list:{category}:{status_filter}:{skip}:{limit}"; None prints as "None".
KeyToolsList(category, status_filter, skip, limit) ==
    <<"tools", "list", IF category = NULL THEN "None" ELSE category,
      IF status_filter = NULL THEN "None" ELSE status_filter,
      ToString(skip), ToString(limit)>>

(***************************************************************************)
(* Queries.                                                                *)
(***************************************************************************)
UserById(id) == CHOOSE u \in users : u.id = id
UserIds == {u.id : u \in users}
UserByName(name) == CHOOSE u \in users : u.username = name
ToolById(id) == CHOOSE t \in tools : t.id = id
ToolExists(id) == \E t \in tools : t.id = id

\* get_current_user: the user a presented token names.
CurrentUsers == {u \in users : \E t \in tokens : t.sub = u.username}

\* The audit entries of the seeded state.
SeedAudit ==
    <<[user_id |-> 1, action |-> "register", entity_type |-> "user", entity_id |-> 1],
      [user_id |-> 2, action |-> "register", entity_type |-> "user", entity_id |-> 2],
      [user_id |-> 1, action |-> "login", entity_type |-> "user", entity_id |-> 1],
      [user_id |-> 2, action |-> "login", entity_type |-> "user", entity_id |-> 2],
      [user_id |-> 1, action |-> "create", entity_type |-> "tool", entity_id |-> 1],
      [user_id |-> 2, action |-> "create", entity_type |-> "tool", entity_id |-> 2]>>

\* The audit log has room for one more entry (the bound of the model).
CanLog == Len(audit) < Len(SeedAudit) + MaxOps

(***************************************************************************)
(* The seeded state: two registered and logged-in users, one of them       *)
(* promoted to admin in the database, and one tool submitted by each.      *)
(***************************************************************************)
NewUser(id, username, email, password) ==
    [id |-> id, username |-> username, email |-> email,
     hashed_password |-> hash_password(password),
     role |-> "user", is_2fa_enabled |-> FALSE, telegram_id |-> NULL]

NewTool(id, name, category, created_by) ==
    [id |-> id, name |-> name, category |-> category, status |-> "pending",
     created_by |-> created_by, approved_by |-> NoId, rejection_reason |-> NULL]

Init ==
    /\ users = {NewUser(1, "alice", "alice@x", "pw1"),
                [NewUser(2, "root", "root@x", "pw2") EXCEPT !.role = "admin"]}
    /\ tools = {NewTool(1, "tool one", "development", 1),
                NewTool(2, "tool two", "design", 2)}
    /\ ratings = {}
    /\ comments = {}
    /\ votes = EmptyBag
    /\ cache = [k \in {} |-> [code |-> ""]]
    /\ audit = SeedAudit
    /\ tokens = {[sub |-> "alice", pending |-> FALSE], [sub |-> "root", pending |-> FALSE]}
    /\ nextId = [user |-> 3, tool |-> 3, rating |-> 1, comment |-> 1]
    /\ resp = Response("none", NoId, NoId, [none |-> TRUE], 200, [none |-> TRUE])
    /\ inflight = {}
    /\ noted = <<>>

(***************************************************************************)
(* routers/auth.py                                                         *)
(***************************************************************************)
Token(sub, pending) == [sub |-> sub, pending |-> pending]

\* `existing_email` is the result of the query for a user with the email.
register_impl(username, email, password, existing_email) ==
    LET op == "register"
        arg == [username |-> username, email |-> email] IN
    IF \E u \in users : u.username = username
    THEN /\ resp' = HTTPException(op, NoId, NoId, arg, 400, "Username already registered")
         /\ UNCHANGED <<inflight, noted, users, tools, ratings, comments, votes, cache, audit, tokens, nextId>>
    ELSE IF existing_email # {}
    THEN /\ resp' = HTTPException(op, NoId, NoId, arg, 400, "Email already registered")
         /\ UNCHANGED <<inflight, noted, users, tools, ratings, comments, votes, cache, audit, tokens, nextId>>
    ELSE LET new_user == NewUser(nextId.user, username, email, password) IN
         /\ Cardinality(users) < MaxUsers
         /\ CanLog
         /\ users' = users \cup {new_user}
         /\ nextId' = [nextId EXCEPT !.user = @ + 1]
         /\ audit' = log_action(audit, new_user.id, "register", "user", new_user.id)
         /\ resp' = Response(op, NoId, new_user.id, arg, 201, [id |-> new_user.id])
         /\ UNCHANGED <<inflight, noted, tools, ratings, comments, votes, cache, tokens>>

\* The handler without the query for the email.
register_skips_email_check(username, email, password) ==
    register_impl(username, email, password, {})

register(username, email, password) ==
    register_impl(username, email, password, {u \in users : u.email = email})

\* `code` is what generate_code returns and `success` what send_code returns;
\* `kept` are the cache keys the handler leaves as they are.  What the caller
\* does with the message (`noted`) is left to the actions that use this.
login_impl(username, password, code, success, pending, kept) ==
    LET op == "login"
        arg == [username |-> username, password |-> password]
        found == \E u \in users : u.username = username IN
    IF ~found \/ ~verify_password(password, UserByName(username).hashed_password)
    THEN /\ resp' = HTTPException(op, NoId, NoId, arg, 401, "Incorrect username or password")
         /\ UNCHANGED <<inflight, users, tools, ratings, comments, votes, cache, audit, tokens, nextId>>
    ELSE LET user == UserByName(username) IN
         IF user.is_2fa_enabled /\ user.telegram_id \notin {NULL, ""}
         THEN /\ cache' = IF Key2fa(user.id) \in kept THEN cache
                           ELSE cache_set(cache, Key2fa(user.id), [code |-> code])
              /\ IF ~success
                 THEN /\ resp' = HTTPException(op, user.id, user.id, arg, 500,
                                               "Failed to send 2FA code")
                      /\ UNCHANGED tokens
                 ELSE /\ tokens' = tokens \cup {Token(user.username, pending)}
                      /\ resp' = Response(op, user.id, user.id, arg, 200,
                                          [access_token |-> Token(user.username, pending),
                                           requires_2fa |-> TRUE])
              /\ UNCHANGED <<inflight, users, tools, ratings, comments, votes, audit, nextId>>
         ELSE /\ CanLog
              /\ tokens' = tokens \cup {Token(user.username, FALSE)}
              /\ audit' = log_action(audit, user.id, "login", "user", user.id)
              /\ resp' = Response(op, user.id, user.id, arg, 200,
                                  [access_token |-> Token(user.username, FALSE),
                                   requires_2fa |-> FALSE])
              /\ UNCHANGED <<inflight, users, tools, ratings, comments, votes, cache, nextId>>

\* The handler with the temporary token replaced by a regular one.
login_full_token(username, password, code, success) ==
    /\ login_impl(username, password, code, success, FALSE, {})
    /\ UNCHANGED noted

\* The request of a caller who does not keep the code.
login(username, password, code, success) ==
    /\ login_impl(username, password, code, success, TRUE, {})
    /\ UNCHANGED noted

\* The caller keeps the code of the message a successful 2FA login sent.
Note(response, code) ==
    IF response.status = 200 /\ response.body.requires_2fa
    THEN /\ Len(noted) < MaxNoted
         /\ noted' = Append(noted, [to |-> response.user, code |-> code])
    ELSE UNCHANGED noted

\* The handler storing a code only when none is cached for the user.
login_noting_keeps_cached_code(username, password, code, success) ==
    /\ login_impl(username, password, code, success, TRUE, DOMAIN cache)
    /\ Note(resp', code)

\* The request of a caller who keeps the code.
login_noting(username, password, code, success) ==
    /\ login_impl(username, password, code, success, TRUE, {})
    /\ Note(resp', code)

\* `on_mismatch` and `on_match` are the cache after a wrong and after a right code.
verify_2fa_impl(user, code, on_mismatch, on_match) ==
    LET op == "verify_2fa"
        arg == [code |-> code]
        cache_key == Key2fa(user.id) IN
    /\ user \in CurrentUsers
    /\ IF ~cache_has(cache, cache_key) \/ cache[cache_key].code = ""
       THEN /\ resp' = HTTPException(op, user.id, user.id, arg, 400,
                                     "2FA code expired or not found")
            /\ UNCHANGED <<inflight, noted, users, tools, ratings, comments, votes, cache, audit, tokens, nextId>>
       ELSE IF code # cache[cache_key].code
       THEN /\ resp' = HTTPException(op, user.id, user.id, arg, 401, "Invalid 2FA code")
            /\ cache' = on_mismatch
            /\ UNCHANGED <<inflight, noted, users, tools, ratings, comments, votes, audit, tokens, nextId>>
       ELSE /\ CanLog
            /\ cache' = on_match
            /\ tokens' = tokens \cup {Token(user.username, FALSE)}
            /\ audit' = log_action(audit, user.id, "2fa_verified", "user", user.id)
            /\ resp' = Response(op, user.id, user.id, arg, 200,
                                [access_token |-> Token(user.username, FALSE),
                                 requires_2fa |-> FALSE])
            /\ UNCHANGED <<inflight, noted, users, tools, ratings, comments, votes, nextId>>

\* The handler deleting the code before it compares it.
verify_2fa_deletes_first(user, code) ==
    verify_2fa_impl(user, code, cache_delete(cache, Key2fa(user.id)),
                    cache_delete(cache, Key2fa(user.id)))

\* The handler keeping the used code.
verify_2fa_keeps_code(user, code) ==
    verify_2fa_impl(user, code, cache, cache)

verify_2fa(user, code) ==
    verify_2fa_impl(user, code, cache, cache_delete(cache, Key2fa(user.id)))

\* `is_valid` is what telegram_service.verify_chat_id returns.
setup_telegram(user, telegram_chat_id, is_valid) ==
    LET op == "setup_telegram"
        arg == [telegram_chat_id |-> telegram_chat_id] IN
    /\ user \in CurrentUsers
    /\ IF ~is_valid
       THEN /\ resp' = HTTPException(op, user.id, user.id, arg, 400, "Invalid Telegram chat ID")
            /\ UNCHANGED <<inflight, noted, users, tools, ratings, comments, votes, cache, audit, tokens, nextId>>
       ELSE /\ CanLog
            /\ users' = (users \ {user}) \cup
                        {[user EXCEPT !.telegram_id = telegram_chat_id,
                                      !.is_2fa_enabled = TRUE]}
            /\ audit' = log_action(audit, user.id, "setup_2fa", "user", user.id)
            /\ resp' = Response(op, user.id, user.id, arg, 200, [is_2fa_enabled |-> TRUE])
            /\ UNCHANGED <<inflight, noted, tools, ratings, comments, votes, cache, tokens, nextId>>

disable_2fa(user) ==
    /\ user \in CurrentUsers
    /\ CanLog
    /\ users' = (users \ {user}) \cup {[user EXCEPT !.is_2fa_enabled = FALSE]}
    /\ audit' = log_action(audit, user.id, "disable_2fa", "user", user.id)
    /\ resp' = Response("disable_2fa", user.id, user.id, [none |-> TRUE], 200,
                        [is_2fa_enabled |-> FALSE])
    /\ UNCHANGED <<inflight, noted, tools, ratings, comments, votes, cache, tokens, nextId>>

\* password_data.get(...) of a missing key is None: the empty string here.
change_password(user, current_password, new_password) ==
    LET op == "change_password"
        arg == [current_password |-> current_password, new_password |-> new_password] IN
    /\ user \in CurrentUsers
    /\ IF current_password = "" \/ new_password = ""
       THEN /\ resp' = HTTPException(op, user.id, user.id, arg, 400,
                                     "Current password and new password are required")
            /\ UNCHANGED <<inflight, noted, users, tools, ratings, comments, votes, cache, audit, tokens, nextId>>
       ELSE IF ~verify_password(current_password, user.hashed_password)
       THEN /\ resp' = HTTPException(op, user.id, user.id, arg, 400,
                                     "Current password is incorrect")
            /\ UNCHANGED <<inflight, noted, users, tools, ratings, comments, votes, cache, audit, tokens, nextId>>
       ELSE /\ users' = (users \ {user}) \cup
                        {[user EXCEPT !.hashed_password = hash_password(new_password)]}
            /\ resp' = Response(op, user.id, user.id, arg, 200,
                                [message |-> "Password changed successfully"])
            /\ UNCHANGED <<inflight, noted, tools, ratings, comments, votes, cache, audit, tokens, nextId>>

\* The cache drops an entry when its expiry (expire=300) has passed.
cache_expire(key) ==
    /\ cache_has(cache, key)
    /\ cache' = cache_delete(cache, key)
    /\ UNCHANGED <<inflight, noted, users, tools, ratings, comments, votes, audit, tokens, nextId, resp>>

\* A token stops being valid when its lifetime (expires_delta) has passed.
token_expire(token) ==
    /\ token \in tokens
    /\ tokens' = tokens \ {token}
    /\ UNCHANGED <<inflight, noted, users, tools, ratings, comments, votes, cache, audit, nextId, resp>>

NextAuth ==
    \/ \E n \in Usernames, e \in Emails, p \in NewPasswords : register(n, e, p)
    \/ \E n \in Usernames, p \in Passwords, c \in Codes, s \in BOOLEAN : login(n, p, c, s)
    \/ \E u \in users, c \in SubmittedCodes : verify_2fa(u, c)
    \/ \E u \in users, t \in ChatIds, v \in BOOLEAN : setup_telegram(u, t, v)
    \/ \E u \in users : disable_2fa(u)
    \/ \E u \in users : cache_expire(Key2fa(u.id))

SpecAuth == Init /\ [][NextAuth]_vars

(***************************************************************************)
(* routers/ratings_comments.py: ratings                                    *)
(***************************************************************************)
\* .first() of a query without ORDER BY: the row with the lowest primary key.
First(rows) == CHOOSE r \in rows : \A q \in rows : r.id <= q.id

RECURSIVE SumRatings(_)
SumRatings(rows) ==
    IF rows = {} THEN 0
    ELSE LET r == CHOOSE x \in rows : TRUE IN r.rating + SumRatings(rows \ {r})

\* round(avg, 2), in hundredths: sum/total rounded to the nearest hundredth.
RoundedAverage(sum, total) == (200 * sum + total) \div (2 * total)

\* The statistics get_rating_stats computes from the rows of a tool.
RatingStats(tool_id) ==
    LET rows == {r \in ratings : r.tool_id = tool_id} IN
    IF rows = {}
    THEN [average_rating |-> 0, total_ratings |-> 0,
          rating_distribution |-> [k \in {"1", "2", "3", "4", "5"} |-> 0]]
    ELSE [average_rating |-> RoundedAverage(SumRatings(rows), Cardinality(rows)),
          total_ratings |-> Cardinality(rows),
          rating_distribution |->
              [k \in {"1", "2", "3", "4", "5"} |->
                  Cardinality({r \in rows : ToString(r.rating) = k})]]

\* A row of tool_ratings.
ToolRating(id, tool_id, user_id, rating) ==
    [id |-> id, tool_id |-> tool_id, user_id |-> user_id, rating |-> rating]

\* `existing` is the result of the query for the caller's rating of the tool.
\* The handler from that query on: it leaves `inflight` and `noted` to its callers.
rate_tool_impl(user, tool_id, rating_value, existing) ==
    LET op == "rate_tool"
        arg == [rating |-> rating_value] IN
    /\ user \in CurrentUsers
    /\ IF ~ToolExists(tool_id)
       THEN /\ resp' = HTTPException(op, user.id, tool_id, arg, 404, "Tool not found")
            /\ UNCHANGED <<users, tools, ratings, comments, votes, cache, audit, tokens, nextId>>
       ELSE LET rating == IF existing # {}
                          THEN [First(existing) EXCEPT !.rating = rating_value]
                          ELSE ToolRating(nextId.rating, tool_id, user.id, rating_value)
                action == IF existing # {} THEN "update_rating" ELSE "create_rating" IN
            /\ CanLog
            \* UPDATE ... WHERE id = existing_rating.id, or INSERT
            /\ ratings' = IF existing # {}
                          THEN {r \in ratings : r.id # rating.id} \cup {rating}
                          ELSE ratings \cup {rating}
            /\ nextId' = IF existing # {} THEN nextId
                         ELSE [nextId EXCEPT !.rating = @ + 1]
            /\ cache' = clear_pattern(cache_delete(cache, KeyRatingStats(tool_id)),
                                      <<"tools">>)
            /\ audit' = log_action(audit, user.id, action, "tool_rating", rating.id)
            /\ resp' = Branch(Response(op, user.id, tool_id, arg, 201, rating), action)
            /\ UNCHANGED <<users, tools, comments, votes, tokens>>

\* The handler without the lookup of the caller's earlier rating.
rate_tool_always_inserts(user, tool_id, rating_value) ==
    /\ rate_tool_impl(user, tool_id, rating_value, {})
    /\ UNCHANGED <<inflight, noted>>

\* The request handled with no other request in between.
rate_tool(user, tool_id, rating_value) ==
    /\ rate_tool_impl(user, tool_id, rating_value,
                      {r \in ratings : r.tool_id = tool_id /\ r.user_id = user.id})
    /\ UNCHANGED <<inflight, noted>>

\* The request up to the query for the caller's rating: other requests can be
\* handled before it goes on.
rate_tool_query(user, tool_id, rating_value) ==
    /\ user \in CurrentUsers
    /\ ToolExists(tool_id)
    /\ Cardinality(inflight) < MaxInflight
    /\ inflight' = inflight \cup
           {[op |-> "rate_tool", user_id |-> user.id, tool_id |-> tool_id,
             rating |-> rating_value,
             existing |-> {r \in ratings : r.tool_id = tool_id /\ r.user_id = user.id}]}
    /\ UNCHANGED <<noted, users, tools, ratings, comments, votes, cache, audit, tokens, nextId,
                   resp>>

\* The rest of the request: the update or the insert, the commit, the cache
\* invalidation and the audit entry.
rate_tool_commit(request) ==
    /\ request \in inflight
    /\ request.op = "rate_tool"
    /\ rate_tool_impl(UserById(request.user_id), request.tool_id, request.rating,
                      request.existing)
    /\ inflight' = inflight \ {request}
    /\ UNCHANGED noted

\* RatingCreate with the upper limit of the field left out.
RatingCreate_no_upper_limit(rating_value) == rating_value >= 1

\* rating: int = Field(..., ge=1, le=5)
RatingCreate(rating_value) == rating_value >= 1 /\ rating_value <= 5

\* The request POST /{tool_id}/rate: the body is validated against RatingCreate
\* (422 when it does not fit) and then handed to rate_tool.
post_rate_tool(user, tool_id, rating_value) ==
    IF RatingCreate(rating_value)
    THEN rate_tool(user, tool_id, rating_value)
    ELSE /\ user \in CurrentUsers
         /\ resp' = HTTPException("rate_tool", user.id, tool_id, [rating |-> rating_value],
                                  422, "Unprocessable Entity")
         /\ UNCHANGED <<inflight, noted, users, tools, ratings, comments, votes, cache, audit, tokens, nextId>>

get_rating_stats(tool_id) ==
    LET op == "get_rating_stats"
        cache_key == KeyRatingStats(tool_id) IN
    IF cache_has(cache, cache_key)
    THEN /\ resp' = Branch(Response(op, NoId, tool_id, [none |-> TRUE], 200,
                                    cache[cache_key]), "cached")
         /\ UNCHANGED <<inflight, noted, users, tools, ratings, comments, votes, cache, audit, tokens, nextId>>
    ELSE /\ cache' = cache_set(cache, cache_key, RatingStats(tool_id))
         /\ resp' = Branch(Response(op, NoId, tool_id, [none |-> TRUE], 200,
                                    RatingStats(tool_id)), "computed")
         /\ UNCHANGED <<inflight, noted, users, tools, ratings, comments, votes, audit, tokens, nextId>>

delete_rating(user, tool_id) ==
    LET op == "delete_rating"
        found == {r \in ratings : r.tool_id = tool_id /\ r.user_id = user.id} IN
    /\ user \in CurrentUsers
    /\ IF found = {}
       THEN /\ resp' = HTTPException(op, user.id, tool_id, [none |-> TRUE], 404,
                                     "Rating not found")
            /\ UNCHANGED <<inflight, noted, users, tools, ratings, comments, votes, cache, audit, tokens, nextId>>
       ELSE LET rating == First(found) IN
            /\ CanLog
            /\ ratings' = ratings \ {rating}
            /\ cache' = clear_pattern(cache_delete(cache, KeyRatingStats(tool_id)),
                                      <<"tools">>)
            /\ audit' = log_action(audit, user.id, "delete_rating", "tool_rating", rating.id)
            /\ resp' = Response(op, user.id, tool_id, [none |-> TRUE], 204, [none |-> TRUE])
            /\ UNCHANGED <<inflight, noted, users, tools, comments, votes, tokens, nextId>>

\* The request up to the query for the tool's ratings, after it missed the
\* cache: other requests can be handled before it goes on.
get_rating_stats_query(tool_id) ==
    /\ ~cache_has(cache, KeyRatingStats(tool_id))
    /\ Cardinality(inflight) < MaxInflight
    /\ inflight' = inflight \cup
           {[op |-> "get_rating_stats", tool_id |-> tool_id,
             stats |-> RatingStats(tool_id)]}
    /\ UNCHANGED <<noted, users, tools, ratings, comments, votes, cache, audit, tokens, nextId,
                   resp>>

\* The rest of the request: the statistics of the rows it read go to the cache
\* and to the caller.
get_rating_stats_commit(request) ==
    /\ request \in inflight
    /\ request.op = "get_rating_stats"
    /\ inflight' = inflight \ {request}
    /\ UNCHANGED noted
    /\ cache' = cache_set(cache, KeyRatingStats(request.tool_id), request.stats)
    /\ resp' = Branch(Response("get_rating_stats", NoId, request.tool_id, [none |-> TRUE],
                               200, request.stats), "computed")
    /\ UNCHANGED <<users, tools, ratings, comments, votes, audit, tokens, nextId>>

(***************************************************************************)
(* routers/ratings_comments.py: comments and votes                         *)
(***************************************************************************)
\* The rows of comment_votes left when the comments `gone` are deleted
\* (ToolComment.votes cascades "all, delete-orphan").
VotesWithout(gone) ==
    [v \in {x \in BagToSet(votes) : x.comment_id \notin gone} |-> votes[v]]

CommentExists(id) == \E c \in comments : c.id = id
CommentById(id) == CHOOSE c \in comments : c.id = id

\* The rows in the order of ORDER BY created_at DESC: newest (highest id) first.
RECURSIVE NewestFirst(_)
NewestFirst(rows) ==
    IF rows = {} THEN <<>>
    ELSE LET newest == CHOOSE r \in rows : \A q \in rows : q.id <= r.id IN
         <<newest>> \o NewestFirst(rows \ {newest})

\* OFFSET skip LIMIT limit.
OffsetLimit(seq, skip, limit) ==
    SubSeq(seq, skip + 1, IF Len(seq) < skip + limit THEN Len(seq) ELSE skip + limit)

\* CommentResponse.from_orm(comment).dict() with the username added.
CommentDict(c) ==
    [id |-> c.id, tool_id |-> c.tool_id, user_id |-> c.user_id, comment |-> c.comment,
     upvotes |-> c.upvotes, downvotes |-> c.downvotes,
     username |-> UserById(c.user_id).username]

\* The page get_tool_comments computes from the database.
CommentsPage(tool_id, skip, limit) ==
    LET rows == OffsetLimit(NewestFirst({c \in comments : c.tool_id = tool_id}),
                            skip, limit) IN
    [i \in 1..Len(rows) |-> CommentDict(rows[i])]

create_comment(user, tool_id, text) ==
    LET op == "create_comment"
        arg == [comment |-> text] IN
    /\ user \in CurrentUsers
    /\ IF ~ToolExists(tool_id)
       THEN /\ resp' = HTTPException(op, user.id, tool_id, arg, 404, "Tool not found")
            /\ UNCHANGED <<inflight, noted, users, tools, ratings, comments, votes, cache, audit, tokens, nextId>>
       ELSE LET comment == [id |-> nextId.comment, tool_id |-> tool_id, user_id |-> user.id,
                            comment |-> text, upvotes |-> 0, downvotes |-> 0] IN
            /\ CanLog
            /\ Cardinality(comments) < MaxComments
            /\ comments' = comments \cup {comment}
            /\ nextId' = [nextId EXCEPT !.comment = @ + 1]
            /\ cache' = clear_pattern(cache, <<"comments", ToString(tool_id)>>)
            /\ audit' = log_action(audit, user.id, "create_comment", "tool_comment", comment.id)
            /\ resp' = Response(op, user.id, comment.id, arg, 201, comment)
            /\ UNCHANGED <<inflight, noted, users, tools, ratings, votes, tokens>>

get_tool_comments(tool_id, skip, limit) ==
    LET op == "get_tool_comments"
        arg == [tool_id |-> tool_id, skip |-> skip, limit |-> limit]
        cache_key == KeyComments(tool_id, skip, limit) IN
    \* `if cached:` an empty list counts as a miss
    IF Cached(cache, cache_key)
    THEN /\ resp' = Branch(Response(op, NoId, tool_id, arg, 200, cache[cache_key]),
                            "cached")
         /\ UNCHANGED <<inflight, noted, users, tools, ratings, comments, votes, cache, audit, tokens, nextId>>
    ELSE LET result == [items |-> CommentsPage(tool_id, skip, limit)] IN
         /\ cache' = cache_set(cache, cache_key, result)
         /\ resp' = Branch(Response(op, NoId, tool_id, arg, 200, result), "computed")
         /\ UNCHANGED <<inflight, noted, users, tools, ratings, comments, votes, audit, tokens, nextId>>

\* `may_edit` are the roles that may edit a comment they did not write.
update_comment_impl(user, tool_id, comment_id, text, may_edit) ==
    LET op == "update_comment"
        arg == [tool_id |-> tool_id, comment |-> text]
        found == {c \in comments : c.id = comment_id /\ c.tool_id = tool_id} IN
    /\ user \in CurrentUsers
    /\ IF found = {}
       THEN /\ resp' = HTTPException(op, user.id, comment_id, arg, 404, "Comment not found")
            /\ UNCHANGED <<inflight, noted, users, tools, ratings, comments, votes, cache, audit, tokens, nextId>>
       ELSE LET comment == First(found) IN
            IF comment.user_id # user.id /\ user.role \notin may_edit
            THEN /\ resp' = HTTPException(op, user.id, comment_id, arg, 403,
                                          "Not authorized to edit this comment")
                 /\ UNCHANGED <<inflight, noted, users, tools, ratings, comments, votes, cache, audit,
                                tokens, nextId>>
            ELSE /\ CanLog
                 /\ comments' = (comments \ {comment}) \cup
                                {[comment EXCEPT !.comment = text]}
                 /\ cache' = clear_pattern(cache, <<"comments", ToString(tool_id)>>)
                 /\ audit' = log_action(audit, user.id, "update_comment", "tool_comment",
                                        comment.id)
                 /\ resp' = Response(op, user.id, comment_id, arg, 200,
                                     [comment EXCEPT !.comment = text])
                 /\ UNCHANGED <<inflight, noted, users, tools, ratings, votes, tokens, nextId>>

\* The handler with the permission check of delete_comment.
update_comment_lets_moderators(user, tool_id, comment_id, text) ==
    update_comment_impl(user, tool_id, comment_id, text, {"moderator", "admin"})

update_comment(user, tool_id, comment_id, text) ==
    update_comment_impl(user, tool_id, comment_id, text, {})

\* `orphans` are the comments whose votes go with them.
delete_comment_impl(user, tool_id, comment_id, orphans) ==
    LET op == "delete_comment"
        arg == [tool_id |-> tool_id]
        found == {c \in comments : c.id = comment_id /\ c.tool_id = tool_id} IN
    /\ user \in CurrentUsers
    /\ IF found = {}
       THEN /\ resp' = HTTPException(op, user.id, comment_id, arg, 404, "Comment not found")
            /\ UNCHANGED <<inflight, noted, users, tools, ratings, comments, votes, cache, audit, tokens, nextId>>
       ELSE LET comment == First(found) IN
            IF comment.user_id # user.id /\ user.role \notin {"moderator", "admin"}
            THEN /\ resp' = HTTPException(op, user.id, comment_id, arg, 403,
                                          "Not authorized to delete this comment")
                 /\ UNCHANGED <<inflight, noted, users, tools, ratings, comments, votes, cache, audit,
                                tokens, nextId>>
            ELSE /\ CanLog
                 /\ comments' = comments \ {comment}
                 /\ votes' = VotesWithout(orphans)
                 /\ cache' = clear_pattern(cache, <<"comments", ToString(tool_id)>>)
                 /\ audit' = log_action(audit, user.id, "delete_comment", "tool_comment",
                                        comment.id)
                 /\ resp' = Response(op, user.id, comment_id, arg, 204, [none |-> TRUE])
                 /\ UNCHANGED <<inflight, noted, users, tools, ratings, tokens, nextId>>

\* The handler with a comment that does not take its votes along.
delete_comment_keeps_votes(user, tool_id, comment_id) ==
    delete_comment_impl(user, tool_id, comment_id, {})

delete_comment(user, tool_id, comment_id) ==
    delete_comment_impl(user, tool_id, comment_id, {comment_id})

\* The caller's rows in comment_votes for the comment.
VotesOf(comment_id, user_id) ==
    {v \in BagToSet(votes) : v.comment_id = comment_id /\ v.user_id = user_id}

\* One step on the counter a vote type counts in: "upvote" counts in upvotes,
\* every other value in downvotes.
Count(comment, vote_type, delta) ==
    IF vote_type = "upvote"
    THEN [comment EXCEPT !.upvotes = @ + delta]
    ELSE [comment EXCEPT !.downvotes = @ + delta]

\* `existing` is the result of the query for the caller's vote on the comment and
\* `old` what the handler takes off the counter of the vote it replaces.
vote_on_comment_impl(user, tool_id, comment_id, vote_type, existing, old) ==
    LET op == "vote_on_comment"
        arg == [tool_id |-> tool_id, vote_type |-> vote_type]
        found == {c \in comments : c.id = comment_id /\ c.tool_id = tool_id}
        new_vote == [comment_id |-> comment_id, user_id |-> user.id,
                     vote_type |-> vote_type] IN
    /\ user \in CurrentUsers
    /\ IF found = {}
       THEN /\ resp' = HTTPException(op, user.id, comment_id, arg, 404, "Comment not found")
            /\ UNCHANGED <<inflight, noted, users, tools, ratings, comments, votes, cache, audit, tokens, nextId>>
       ELSE LET comment == First(found) IN
            /\ IF existing # {}
               THEN \E existing_vote \in existing :
                      /\ resp' = Branch(Response(op, user.id, comment_id, arg, 200,
                                                 [message |-> vote_type]), "update_vote")
                      /\ votes' = (votes (-) SetToBag({existing_vote})) (+) SetToBag({new_vote})
                      /\ comments' = (comments \ {comment}) \cup
                             {Count(Count(comment, existing_vote.vote_type, 0 - old),
                                    vote_type, 1)}
               ELSE /\ resp' = Branch(Response(op, user.id, comment_id, arg, 200,
                                               [message |-> vote_type]), "create_vote")
                    /\ votes' = votes (+) SetToBag({new_vote})
                    /\ comments' = (comments \ {comment}) \cup {Count(comment, vote_type, 1)}
            /\ cache' = clear_pattern(cache, <<"comments", ToString(tool_id)>>)
            /\ UNCHANGED <<inflight, noted, users, tools, ratings, audit, tokens, nextId>>

\* The handler without the lookup of the caller's earlier vote.
vote_always_inserts(user, tool_id, comment_id, vote_type) ==
    vote_on_comment_impl(user, tool_id, comment_id, vote_type, {}, 1)

\* The handler leaving the counter of the replaced vote as it is.
vote_keeps_old_count(user, tool_id, comment_id, vote_type) ==
    vote_on_comment_impl(user, tool_id, comment_id, vote_type,
                         VotesOf(comment_id, user.id), 0)

vote_on_comment(user, tool_id, comment_id, vote_type) ==
    vote_on_comment_impl(user, tool_id, comment_id, vote_type,
                         VotesOf(comment_id, user.id), 1)

remove_vote(user, tool_id, comment_id) ==
    LET op == "remove_vote"
        arg == [tool_id |-> tool_id]
        found == VotesOf(comment_id, user.id) IN
    /\ user \in CurrentUsers
    /\ IF found = {}
       THEN /\ resp' = HTTPException(op, user.id, comment_id, arg, 404, "Vote not found")
            /\ UNCHANGED <<inflight, noted, users, tools, ratings, comments, votes, cache, audit, tokens, nextId>>
       ELSE /\ \E vote \in found :
                 /\ comments' = IF CommentExists(comment_id)
                                THEN (comments \ {CommentById(comment_id)}) \cup
                                     {Count(CommentById(comment_id), vote.vote_type, 0 - 1)}
                                ELSE comments
                 /\ votes' = votes (-) SetToBag({vote})
            /\ cache' = clear_pattern(cache, <<"comments", ToString(tool_id)>>)
            /\ resp' = Response(op, user.id, comment_id, arg, 204, [none |-> TRUE])
            /\ UNCHANGED <<inflight, noted, users, tools, ratings, audit, tokens, nextId>>

NextComments ==
    \/ \E u \in users, t \in ToolIds, x \in NewCommentTexts : create_comment(u, t, x)
    \/ \E t \in ToolIds, p \in Pages : get_tool_comments(t, p[1], p[2])
    \/ \E u \in users, t \in ToolIds, c \in CommentIds, x \in CommentTexts :
           update_comment(u, t, c, x)
    \/ \E u \in users, t \in ToolIds, c \in CommentIds : delete_comment(u, t, c)
    \/ \E u \in users, t \in ToolIds, c \in CommentIds, v \in VoteTypes :
           vote_on_comment(u, t, c, v)
    \/ \E u \in users, t \in ToolIds, c \in CommentIds : remove_vote(u, t, c)

SpecComments == Init /\ [][NextComments]_vars

\* The requests that write tool_comments and comment_votes.
NextVotes ==
    \/ \E u \in users, t \in ToolIds, x \in NewCommentTexts : create_comment(u, t, x)
    \/ \E u \in users, t \in ToolIds, c \in CommentIds : delete_comment(u, t, c)
    \/ \E u \in users, t \in ToolIds, c \in CommentIds, v \in VoteTypes :
           vote_on_comment(u, t, c, v)
    \/ \E u \in users, t \in ToolIds, c \in CommentIds : remove_vote(u, t, c)

SpecVotes == Init /\ [][NextVotes]_vars

(***************************************************************************)
(* routers/tools.py: delete_tool                                           *)
(***************************************************************************)
\* `may_delete` are the roles that may delete a tool they did not create.
delete_tool_impl(user, tool_id, may_delete) ==
    LET op == "delete_tool" IN
    /\ user \in CurrentUsers
    /\ IF ~ToolExists(tool_id)
       THEN /\ resp' = HTTPException(op, user.id, tool_id, [none |-> TRUE], 404,
                                     "Tool not found")
            /\ UNCHANGED <<inflight, noted, users, tools, ratings, comments, votes, cache, audit, tokens, nextId>>
       ELSE LET tool == ToolById(tool_id) IN
            IF tool.created_by # user.id /\ user.role \notin may_delete
            THEN /\ resp' = HTTPException(op, user.id, tool_id, [none |-> TRUE], 403,
                                          "Not authorized to delete this tool")
                 /\ UNCHANGED <<inflight, noted, users, tools, ratings, comments, votes, cache, audit,
                                tokens, nextId>>
            ELSE /\ CanLog
                 /\ audit' = log_action(audit, user.id, "delete", "tool", tool.id)
                 /\ tools' = tools \ {tool}
                 /\ ratings' = {r \in ratings : r.tool_id # tool.id}
                 /\ comments' = {c \in comments : c.tool_id # tool.id}
                 /\ votes' = VotesWithout({c.id : c \in {x \in comments : x.tool_id = tool.id}})
                 /\ cache' = clear_pattern(cache, <<"tools">>)
                 /\ resp' = Response(op, user.id, tool_id, [none |-> TRUE], 204,
                                     [none |-> TRUE])
                 /\ UNCHANGED <<inflight, noted, users, tokens, nextId>>

\* The handler with the check the moderation endpoints use.
delete_tool_lets_moderators(user, tool_id) ==
    delete_tool_impl(user, tool_id, {"moderator", "admin"})

delete_tool(user, tool_id) ==
    delete_tool_impl(user, tool_id, {"admin"})

\* `fields` is tool_data.dict(exclude_unset=True) with `extra` added to it: the
\* columns the handler sets beyond those the ToolUpdate schema carries.
update_tool_impl(user, tool_id, tool_data, extra) ==
    LET op == "update_tool"
        fields == [f \in DOMAIN tool_data \cup DOMAIN extra |->
                      IF f \in DOMAIN extra THEN extra[f] ELSE tool_data[f]] IN
    /\ user \in CurrentUsers
    /\ IF ~ToolExists(tool_id)
       THEN /\ resp' = HTTPException(op, user.id, tool_id, tool_data, 404, "Tool not found")
            /\ UNCHANGED <<inflight, noted, users, tools, ratings, comments, votes, cache, audit, tokens, nextId>>
       ELSE LET tool == ToolById(tool_id)
                \* for field, value in update_data.items(): setattr(tool, field, value)
                updated == [c \in DOMAIN tool |->
                               IF c \in DOMAIN fields THEN fields[c] ELSE tool[c]] IN
            IF tool.created_by # user.id /\ user.role # "admin"
            THEN /\ resp' = HTTPException(op, user.id, tool_id, tool_data, 403,
                                          "Not authorized to update this tool")
                 /\ UNCHANGED <<inflight, noted, users, tools, ratings, comments, votes, cache, audit,
                                tokens, nextId>>
            ELSE /\ CanLog
                 /\ tools' = (tools \ {tool}) \cup {updated}
                 /\ cache' = clear_pattern(cache, <<"tools">>)
                 /\ audit' = log_action(audit, user.id, "update", "tool", tool.id)
                 /\ resp' = Response(op, user.id, tool_id, tool_data, 200, updated)
                 /\ UNCHANGED <<inflight, noted, users, ratings, comments, votes, tokens, nextId>>

\* The handler with a schema that lets the caller set the status.
update_tool_sets_status(user, tool_id, tool_data) ==
    update_tool_impl(user, tool_id, tool_data, [status |-> "approved"])

update_tool(user, tool_id, tool_data) ==
    update_tool_impl(user, tool_id, tool_data, [f \in {} |-> NULL])

NextRatings ==
    \/ \E u \in users, t \in ToolIds, v \in RatingValues : rate_tool(u, t, v)
    \/ \E t \in ToolIds : get_rating_stats(t)
    \/ \E u \in users, t \in ToolIds : delete_rating(u, t)
    \/ \E u \in users, t \in ToolIds : delete_tool(u, t)

SpecRatings == Init /\ [][NextRatings]_vars

(***************************************************************************)
(* routers/tools.py: create_tool; routers/admin.py                         *)
(***************************************************************************)
create_tool(user, name, category) ==
    LET op == "create_tool"
        arg == [name |-> name, category |-> category]
        new_tool == NewTool(nextId.tool, name, category, user.id) IN
    /\ user \in CurrentUsers
    /\ CanLog
    /\ tools' = tools \cup {new_tool}
    /\ nextId' = [nextId EXCEPT !.tool = @ + 1]
    /\ cache' = clear_pattern(cache, <<"tools">>)
    /\ audit' = log_action(audit, user.id, "create", "tool", new_tool.id)
    /\ resp' = Response(op, user.id, new_tool.id, arg, 201, new_tool)
    /\ UNCHANGED <<inflight, noted, users, ratings, comments, votes, tokens>>

\* The rows in the order of a query without ORDER BY: by primary key.
RECURSIVE OldestFirst(_)
OldestFirst(rows) ==
    IF rows = {} THEN <<>>
    ELSE <<First(rows)>> \o OldestFirst(rows \ {First(rows)})

\* The list get_tools computes from the database.
ToolsList(category, status_filter, skip, limit) ==
    OffsetLimit(OldestFirst({t \in tools :
                                /\ category # NULL => t.category = category
                                /\ status_filter # NULL => t.status = status_filter}),
                skip, limit)

get_tools(category, status_filter, skip, limit) ==
    LET op == "get_tools"
        arg == [category |-> category, status |-> status_filter,
                skip |-> skip, limit |-> limit]
        cache_key == KeyToolsList(category, status_filter, skip, limit) IN
    IF Cached(cache, cache_key)
    THEN /\ resp' = Branch(Response(op, NoId, NoId, arg, 200, cache[cache_key]), "cached")
         /\ UNCHANGED <<inflight, noted, users, tools, ratings, comments, votes, cache, audit, tokens, nextId>>
    ELSE LET result == [items |-> ToolsList(category, status_filter, skip, limit)] IN
         /\ cache' = cache_set(cache, cache_key, result)
         /\ resp' = Branch(Response(op, NoId, NoId, arg, 200, result), "computed")
         /\ UNCHANGED <<inflight, noted, users, tools, ratings, comments, votes, audit, tokens, nextId>>

\* The statistics get_tools_stats computes from the database.
ToolsStats ==
    [total |-> Cardinality(tools),
     by_status |-> [x \in ToolStatuses |-> Cardinality({t \in tools : t.status = x})],
     by_category |-> [c \in ToolCategories |-> Cardinality({t \in tools : t.category = c})]]

get_tools_stats ==
    LET op == "get_tools_stats" IN
    IF Cached(cache, KeyToolsStats)
    THEN /\ resp' = Branch(Response(op, NoId, NoId, [none |-> TRUE], 200,
                                    cache[KeyToolsStats]), "cached")
         /\ UNCHANGED <<inflight, noted, users, tools, ratings, comments, votes, cache, audit, tokens, nextId>>
    ELSE /\ cache' = cache_set(cache, KeyToolsStats, ToolsStats)
         /\ resp' = Branch(Response(op, NoId, NoId, [none |-> TRUE], 200, ToolsStats),
                           "computed")
         /\ UNCHANGED <<inflight, noted, users, tools, ratings, comments, votes, audit, tokens, nextId>>

\* The dependencies require_moderator and require_admin let these roles pass.
ModeratorRoles == {"moderator", "admin"}
AdminRoles == {"admin"}

Forbidden(op, user, target, arg) ==
    /\ resp' = HTTPException(op, user.id, target, arg, 403, "Insufficient permissions")
    /\ UNCHANGED <<inflight, noted, users, tools, ratings, comments, votes, cache, audit, tokens, nextId>>

\* `on_approval` is the rejection reason an approved tool is left with.
approve_tool_impl(user, tool_id, approved, reason, on_approval) ==
    LET op == "approve_tool"
        arg == [approved |-> approved, reason |-> reason] IN
    /\ user \in CurrentUsers
    /\ IF user.role \notin ModeratorRoles
       THEN Forbidden(op, user, tool_id, arg)
       ELSE IF ~ToolExists(tool_id)
       THEN /\ resp' = HTTPException(op, user.id, tool_id, arg, 404, "Tool not found")
            /\ UNCHANGED <<inflight, noted, users, tools, ratings, comments, votes, cache, audit, tokens, nextId>>
       ELSE LET tool == ToolById(tool_id)
                decided == IF approved
                           THEN [tool EXCEPT !.status = "approved",
                                             !.rejection_reason = on_approval,
                                             !.approved_by = user.id]
                           ELSE [tool EXCEPT !.status = "rejected",
                                             !.rejection_reason = reason,
                                             !.approved_by = user.id]
                action == IF approved THEN "approve" ELSE "reject" IN
            /\ CanLog
            /\ tools' = (tools \ {tool}) \cup {decided}
            /\ cache' = clear_pattern(cache, <<"tools">>)
            /\ audit' = log_action(audit, user.id, action, "tool", tool.id)
            /\ resp' = Branch(Response(op, user.id, tool_id, arg, 200, decided), action)
            /\ UNCHANGED <<inflight, noted, users, ratings, comments, votes, tokens, nextId>>

\* The handler leaving the reason of an earlier rejection on an approved tool.
approve_tool_keeps_reason(user, tool_id, approved, reason) ==
    approve_tool_impl(user, tool_id, approved, reason,
                      IF ToolExists(tool_id) THEN ToolById(tool_id).rejection_reason
                      ELSE NULL)

approve_tool(user, tool_id, approved, reason) ==
    approve_tool_impl(user, tool_id, approved, reason, NULL)

\* `own` is the id the handler compares the target's id with.
update_user_role_impl(current_user, user_id, new_role, own) ==
    LET op == "update_user_role"
        arg == [new_role |-> new_role] IN
    /\ current_user \in CurrentUsers
    /\ IF current_user.role \notin AdminRoles
       THEN Forbidden(op, current_user, user_id, arg)
       ELSE IF user_id \notin UserIds
       THEN /\ resp' = HTTPException(op, current_user.id, user_id, arg, 404, "User not found")
            /\ UNCHANGED <<inflight, noted, users, tools, ratings, comments, votes, cache, audit, tokens, nextId>>
       ELSE IF user_id = own
       THEN /\ resp' = HTTPException(op, current_user.id, user_id, arg, 400,
                                     "Cannot change your own role")
            /\ UNCHANGED <<inflight, noted, users, tools, ratings, comments, votes, cache, audit, tokens, nextId>>
       ELSE LET target_user == UserById(user_id) IN
            /\ CanLog
            /\ users' = (users \ {target_user}) \cup {[target_user EXCEPT !.role = new_role]}
            /\ audit' = log_action(audit, current_user.id, "change_role", "user",
                                   target_user.id)
            /\ resp' = Response(op, current_user.id, user_id, arg, 200,
                                [target_user EXCEPT !.role = new_role])
            /\ UNCHANGED <<inflight, noted, tools, ratings, comments, votes, cache, tokens, nextId>>

\* The handler without the check of the caller's own id.
update_user_role_allows_self(current_user, user_id, new_role) ==
    update_user_role_impl(current_user, user_id, new_role, NoId)

update_user_role(current_user, user_id, new_role) ==
    update_user_role_impl(current_user, user_id, new_role, current_user.id)

\* .limit(10).count() of the audit log.
RecentLimit == 10

\* The statistics get_admin_stats computes from the database.
AdminStats ==
    [users |->
        [total |-> Cardinality(users),
         by_role |-> [r \in Roles |-> Cardinality({u \in users : u.role = r})],
         with_2fa |-> Cardinality({u \in users : u.is_2fa_enabled})],
     tools |->
        [total |-> Cardinality(tools),
         by_status |-> [x \in ToolStatuses |-> Cardinality({t \in tools : t.status = x})],
         by_category |->
             [c \in ToolCategories |-> Cardinality({t \in tools : t.category = c})]],
     activity |->
        [total_actions |-> Len(audit),
         recent_actions |-> IF Len(audit) < RecentLimit THEN Len(audit) ELSE RecentLimit]]

get_admin_stats(user) ==
    LET op == "get_admin_stats" IN
    /\ user \in CurrentUsers
    /\ IF user.role \notin ModeratorRoles
       THEN Forbidden(op, user, NoId, [none |-> TRUE])
       ELSE IF cache_has(cache, KeyAdminStats)
       THEN /\ resp' = Branch(Response(op, user.id, NoId, [none |-> TRUE], 200,
                                       cache[KeyAdminStats]), "cached")
            /\ UNCHANGED <<inflight, noted, users, tools, ratings, comments, votes, cache, audit, tokens, nextId>>
       ELSE /\ cache' = cache_set(cache, KeyAdminStats, AdminStats)
            /\ resp' = Branch(Response(op, user.id, NoId, [none |-> TRUE], 200, AdminStats),
                              "computed")
            /\ UNCHANGED <<inflight, noted, users, tools, ratings, comments, votes, audit, tokens, nextId>>

NextAdmin ==
    \/ \E u \in users, n \in NewToolNames, c \in NewToolCategories : create_tool(u, n, c)
    \/ \E u \in users, t \in ToolIds, a \in BOOLEAN, r \in Reasons : approve_tool(u, t, a, r)
    \/ \E u \in users, i \in UserIds, r \in Roles : update_user_role(u, i, r)
    \/ \E u \in users : get_admin_stats(u)
    \/ \E n \in Usernames, e \in Emails, p \in NewPasswords : register(n, e, p)

SpecAdmin == Init /\ [][NextAdmin]_vars

\* The requests of a tool's life: submission, edits, ratings, comments, the
\* moderation decision, and the role changes that make moderators.
NextModeration ==
    \/ \E u \in users, n \in NewToolNames, c \in NewToolCategories : create_tool(u, n, c)
    \/ \E u \in users, t \in ToolIds, d \in ToolUpdates : update_tool(u, t, d)
    \/ \E u \in users, t \in ToolIds, a \in BOOLEAN, r \in Reasons : approve_tool(u, t, a, r)
    \/ \E u \in users, i \in UserIds : update_user_role(u, i, "moderator")
    \/ \E u \in users, v \in RatingValues : rate_tool(u, 1, v)
    \/ \E u \in users, x \in NewCommentTexts : create_comment(u, 1, x)

SpecModeration == Init /\ [][NextModeration]_vars

\* The requests on a tool by its creator and by others, with the role changes
\* that make moderators and a cached read.
NextOwnership ==
    \/ \E u \in users, t \in ToolIds, d \in ToolUpdates : update_tool(u, t, d)
    \/ \E u \in users, t \in ToolIds : delete_tool(u, t)
    \/ \E u \in users, i \in UserIds : update_user_role(u, i, "moderator")
    \/ \E t \in ToolIds : get_rating_stats(t)

SpecOwnership == Init /\ [][NextOwnership]_vars

\* Requests that change rows of users, tool_comments and comment_votes.
NextAudit ==
    \/ \E u \in users, t \in ToolIds, x \in NewCommentTexts : create_comment(u, t, x)
    \/ \E u \in users, t \in ToolIds, c \in CommentIds, v \in VoteTypes :
           vote_on_comment(u, t, c, v)
    \/ \E u \in users, t \in ToolIds, c \in CommentIds : remove_vote(u, t, c)
    \/ \E u \in users, p \in Passwords \cup {""}, n \in NewPasswords :
           change_password(u, p, n)

SpecAudit == Init /\ [][NextAudit]_vars

\* The rating requests as they arrive, bodies outside the schema included.
NextRatingValues ==
    \/ \E u \in users, t \in ToolIds, v \in SubmittedRatings : post_rate_tool(u, t, v)
    \/ \E t \in ToolIds : get_rating_stats(t)
    \/ \E u \in users, t \in ToolIds : delete_rating(u, t)

SpecRatingValues == Init /\ [][NextRatingValues]_vars

\* User ids a request path can carry: those of rows that exist or can exist.
PathUserIds == 1..MaxUsers

\* Registration and role changes.
NextRoles ==
    \/ \E n \in Usernames, e \in Emails, p \in NewPasswords : register(n, e, p)
    \/ \E u \in users, i \in PathUserIds, r \in Roles : update_user_role(u, i, r)

SpecRoles == Init /\ [][NextRoles]_vars

\* The requests that write or remove comments, with the role changes that make
\* moderators and a cached read.
NextCommentAuthors ==
    \/ \E u \in users, x \in NewCommentTexts : create_comment(u, 1, x)
    \/ \E u \in users, t \in ToolIds, c \in CommentIds, x \in CommentTexts :
           update_comment(u, t, c, x)
    \/ \E u \in users, t \in ToolIds, c \in CommentIds : delete_comment(u, t, c)
    \/ \E u \in users : delete_tool(u, 1)
    \/ \E u \in users, i \in UserIds : update_user_role(u, i, "moderator")
    \/ \E p \in Pages : get_tool_comments(1, p[1], p[2])

SpecCommentAuthors == Init /\ [][NextCommentAuthors]_vars

\* The cached reads, with requests that give them something to read.
NextReads ==
    \/ \E f \in ToolFilters, p \in ToolPages : get_tools(f[1], f[2], p[1], p[2])
    \/ get_tools_stats
    \/ \E t \in ToolIds : get_rating_stats(t)
    \/ \E t \in ToolIds, p \in Pages : get_tool_comments(t, p[1], p[2])
    \/ \E u \in users : rate_tool(u, 1, 5)
    \/ \E u \in users, x \in NewCommentTexts : create_comment(u, 1, x)

SpecReads == Init /\ [][NextReads]_vars

\* The requests of a session: logging in, the second factor, the account
\* settings and a first authenticated request, with tokens running out.
NextSession ==
    \/ \E n \in Usernames, p \in Passwords, c \in Codes, s \in BOOLEAN : login(n, p, c, s)
    \/ \E u \in users, c \in SubmittedCodes : verify_2fa(u, c)
    \/ \E u \in users, t \in ChatIds, v \in BOOLEAN : setup_telegram(u, t, v)
    \/ \E u \in users : disable_2fa(u)
    \/ \E u \in users, p \in Passwords, n \in NewPasswords : change_password(u, p, n)
    \/ \E u \in users, n \in NewToolNames, c \in NewToolCategories : create_tool(u, n, c)
    \/ \E t \in tokens : token_expire(t)

SpecSession == Init /\ [][NextSession]_vars

\* rate_tool requests that interleave between their query and their write.
NextRace ==
    \/ \E u \in users, t \in ToolIds, v \in RatingValues : rate_tool_query(u, t, v)
    \/ \E request \in inflight : rate_tool_commit(request)

SpecRace == Init /\ [][NextRace]_vars

\* Reads of the rating statistics that interleave, between their query and
\* their write to the cache, with requests that change the ratings.
NextStatsRace ==
    \/ \E t \in ToolIds : get_rating_stats_query(t)
    \/ \E request \in inflight : get_rating_stats_commit(request)
    \/ \E u \in users, t \in ToolIds, v \in RatingValues : rate_tool(u, t, v)
    \/ \E u \in users, t \in ToolIds : delete_rating(u, t)

SpecStatsRace == Init /\ [][NextStatsRace]_vars

\* Logins of callers who keep the codes they are sent, and the second factor.
NextCodes ==
    \/ \E n \in Usernames, p \in Passwords, c \in Codes, s \in BOOLEAN :
           login_noting(n, p, c, s)
    \/ \E u \in users, c \in SubmittedCodes : verify_2fa(u, c)
    \/ \E u \in users, t \in ChatIds, v \in BOOLEAN : setup_telegram(u, t, v)
    \/ \E u \in users : cache_expire(Key2fa(u.id))

SpecCodes == Init /\ [][NextCodes]_vars

\* The requests that store and remove the ratings, comments and votes of a
\* tool, and the removal of the tool.
NextIntegrity ==
    \/ \E u \in users : rate_tool(u, 1, 5)
    \/ \E u \in users, x \in NewCommentTexts : create_comment(u, 1, x)
    \/ \E u \in users, c \in CommentIds : vote_on_comment(u, 1, c, "upvote")
    \/ \E u \in users : delete_tool(u, 1)
    \/ \E u \in users, c \in CommentIds : delete_comment(u, 1, c)

SpecIntegrity == Init /\ [][NextIntegrity]_vars

\* The requests that write the rows of tools, with the role changes that make
\* moderators.
NextDecisions ==
    \/ \E u \in users, n \in NewToolNames, c \in NewToolCategories : create_tool(u, n, c)
    \/ \E u \in users, t \in ToolIds, d \in ToolUpdates : update_tool(u, t, d)
    \/ \E u \in users, t \in ToolIds, a \in BOOLEAN, r \in Reasons : approve_tool(u, t, a, r)
    \/ \E u \in users, i \in UserIds : update_user_role(u, i, "moderator")

SpecDecisions == Init /\ [][NextDecisions]_vars

(***************************************************************************)
(* Claims about the login flow (checked under SpecAuth).                   *)
(***************************************************************************)
TwoFactorUser(u) == u.is_2fa_enabled /\ u.telegram_id \notin {NULL, ""}
IssuesToken(r) == "access_token" \in DOMAIN r.body

\* C2: login never returns a full access token for a user who has 2FA enabled
\* and a Telegram id: on a correct password it stores the newly generated code
\* under '2fa:<user id>' and the only token it returns is a pending one flagged
\* requires_2fa (none when the notifier fails); and a login that returns a full
\* token is a login of a user for whom 2FA is not enabled.
C2_LoginNeverSkips2fa ==
    [][\A n \in Usernames, p \in Passwords, c \in Codes, s \in BOOLEAN :
        login(n, p, c, s) =>
          /\ (IssuesToken(resp') /\ ~resp'.body.access_token.pending)
                => ~UserByName(n).is_2fa_enabled
          /\ \A u \in users :
               (u.username = n /\ verify_password(p, u.hashed_password) /\ TwoFactorUser(u))
                 => /\ cache_has(cache', Key2fa(u.id))
                    /\ cache'[Key2fa(u.id)] = [code |-> c]
                    /\ IssuesToken(resp')
                         => /\ resp'.body.access_token = Token(n, TRUE)
                            /\ resp'.body.requires_2fa
                    /\ Token(n, FALSE) \in tokens' => Token(n, FALSE) \in tokens
                    /\ s => IssuesToken(resp')]_vars

\* A login of a 2FA user has stored a code and returned a pending token.
C2_Witness ==
    /\ resp.op = "login"
    /\ resp.status = 200
    /\ resp.body.requires_2fa
    /\ resp.body.access_token.pending
    /\ UserById(resp.user).is_2fa_enabled
    /\ cache_has(cache, Key2fa(resp.user))

\* C3: verify_2fa issues a full token only when the submitted code equals the
\* code cached for the calling user; with no code cached it fails with 400, with
\* a different code it fails with 401, and a failed call leaves the cache entry
\* as it was, issues no token and writes no audit entry.
C3_Verify2fa ==
    [][\A u \in users, c \in SubmittedCodes :
        verify_2fa(u, c) =>
          LET k == Key2fa(u.id) IN
          /\ IssuesToken(resp') <=> (cache_has(cache, k) /\ cache[k] = [code |-> c])
          /\ IssuesToken(resp') => resp'.body.access_token = Token(u.username, FALSE)
          /\ ~cache_has(cache, k) => resp'.status = 400
          /\ (cache_has(cache, k) /\ cache[k] # [code |-> c]) => resp'.status = 401
          /\ ~IssuesToken(resp')
               => /\ cache' = cache
                  /\ tokens' = tokens
                  /\ audit' = audit]_vars

\* A wrong code was rejected with 401 and the cached code is still there.
C3_Witness ==
    /\ resp.op = "verify_2fa"
    /\ resp.status = 401
    /\ cache_has(cache, Key2fa(resp.user))
    /\ cache[Key2fa(resp.user)].code # resp.arg.code

\* C4: a 2FA code completes a login at most once: a successful verify_2fa
\* removes the user's cache entry, only a login of that user stores one again,
\* and verify_2fa without an entry is rejected with 400 and issues no token.
C4_CodeUsedOnce ==
    [][\A u \in users :
        LET k == Key2fa(u.id) IN
        /\ \A c \in SubmittedCodes :
             (verify_2fa(u, c) /\ IssuesToken(resp')) => ~cache_has(cache', k)
        /\ (~cache_has(cache, k) /\ cache_has(cache', k))
             => (resp'.op = "login" /\ resp'.user = u.id)
        /\ \A c \in SubmittedCodes :
             (verify_2fa(u, c) /\ ~cache_has(cache, k))
               => /\ resp'.status = 400
                  /\ ~IssuesToken(resp')
                  /\ tokens' = tokens]_vars

\* A verify_2fa that follows the user's successful verify_2fa (the last audit
\* entry) was rejected with 400.
C4_Witness ==
    /\ resp.op = "verify_2fa"
    /\ resp.status = 400
    /\ resp.arg.code \in Codes
    /\ audit[Len(audit)] = [user_id |-> resp.user, action |-> "2fa_verified",
                            entity_type |-> "user", entity_id |-> resp.user]

(***************************************************************************)
(* Claims about ratings (checked under SpecRatings).                       *)
(***************************************************************************)
RatingsOf(user_id, tool_id) ==
    {r \in ratings : r.user_id = user_id /\ r.tool_id = tool_id}

\* C1: there is at most one rating row per (user, tool) pair, and after a
\* successful rate_tool(user, tool, v) the row of that pair holds v, a
\* resubmission having overwritten the earlier row.
C1_OneRatingPerPair ==
    /\ \A u \in UserIds, t \in ToolIds : Cardinality(RatingsOf(u, t)) <= 1
    /\ (resp.op = "rate_tool" /\ resp.status = 201)
         => /\ \A r \in RatingsOf(resp.user, resp.target) : r.rating = resp.arg.rating
            /\ Cardinality(RatingsOf(resp.user, resp.target)) = 1
            /\ resp.body \in ratings

\* A resubmission: rate_tool found the caller's rating and changed its value.
C1_Witness ==
    /\ resp.op = "rate_tool"
    /\ resp.status = 201
    /\ resp.branch = "update_rating"
    /\ \E e \in {audit[i] : i \in 1..Len(audit)} :
         /\ e.action = "create_rating"
         /\ e.entity_id = resp.body.id
    /\ resp.arg.rating = 2
    /\ RatingsOf(resp.user, resp.target) = {resp.body}

\* C5: the cache entry 'rating:stats:<tool id>', when present, equals the
\* statistics computed from the ratings stored for the tool, so that
\* get_rating_stats always returns the statistics of the stored ratings.
C5_CachedStatsAreCurrent ==
    \A t \in ToolIds :
        cache_has(cache, KeyRatingStats(t)) => cache[KeyRatingStats(t)] = RatingStats(t)

\* C6: after delete_tool has deleted a tool, no cached rating statistics and no
\* cached comment page of that tool remain, and get_rating_stats for a tool
\* that does not exist returns no ratings.
C6_DeleteToolClearsCaches ==
    /\ (resp.op = "delete_tool" /\ resp.status = 204)
          => \A k \in DOMAIN cache :
                 /\ k # KeyRatingStats(resp.target)
                 /\ ~IsPrefix(<<"comments", ToString(resp.target)>>, k)
    /\ (resp.op = "get_rating_stats" /\ ~ToolExists(resp.target))
          => resp.body.total_ratings = 0

(***************************************************************************)
(* Claims about comments and votes (checked under SpecComments, SpecVotes).*)
(***************************************************************************)
\* C7: a cached page that get_tool_comments returns equals the page computed
\* from the database, the upvote and downvote counters included.
C7_CachedPagesAreCurrent ==
    \A t \in ToolIds, p \in Pages :
        LET k == KeyComments(t, p[1], p[2]) IN
        (cache_has(cache, k) /\ cache[k].items # <<>>)
            => cache[k].items = CommentsPage(t, p[1], p[2])

\* The number of rows of comment_votes for a comment whose type is (is_up) or
\* is not (~is_up) "upvote".
RECURSIVE TallyOver(_, _, _)
TallyOver(rows, comment_id, is_up) ==
    IF rows = {} THEN 0
    ELSE LET v == CHOOSE x \in rows : TRUE
             counts == v.comment_id = comment_id /\ ((v.vote_type = "upvote") <=> is_up) IN
         (IF counts THEN CopiesIn(v, votes) ELSE 0)
             + TallyOver(rows \ {v}, comment_id, is_up)

Tally(comment_id, is_up) == TallyOver(BagToSet(votes), comment_id, is_up)

\* C9: the counters stored on every comment equal the tally of the stored
\* votes: upvotes is the number of vote rows of type upvote for the comment,
\* downvotes the number of its vote rows of any other type, and neither counter
\* is negative.
C9_CountersMatchVotes ==
    \A c \in comments :
        /\ c.upvotes = Tally(c.id, TRUE)
        /\ c.downvotes = Tally(c.id, FALSE)
        /\ c.upvotes >= 0
        /\ c.downvotes >= 0

\* A vote was switched from one type to the other while another user's vote
\* on the same comment stood.
C9_Witness ==
    /\ resp.op = "vote_on_comment"
    /\ resp.status = 200
    /\ resp.branch = "update_vote"
    /\ resp.arg.vote_type = "downvote"
    /\ \E c \in comments : c.id = resp.target /\ c.upvotes = 1 /\ c.downvotes = 1

\* C10: there is at most one vote row per (user, comment) pair: a vote by a
\* user who has a row for the comment changes the type of that row.
C10_OneVotePerPair ==
    /\ \A v \in BagToSet(votes) :
         /\ CopiesIn(v, votes) = 1
         /\ VotesOf(v.comment_id, v.user_id) = {v}
    /\ (resp.op = "vote_on_comment" /\ resp.status = 200)
         => VotesOf(resp.target, resp.user) =
                {[comment_id |-> resp.target, user_id |-> resp.user,
                  vote_type |-> resp.arg.vote_type]}

\* A second vote by the same user on the same comment, with the other type.
C10_Witness ==
    /\ resp.op = "vote_on_comment"
    /\ resp.status = 200
    /\ resp.branch = "update_vote"
    /\ resp.arg.vote_type = "upvote"
    /\ \E c \in comments : c.id = resp.target /\ c.upvotes = 1 /\ c.downvotes = 0
    /\ BagCardinality(votes) = 1

(***************************************************************************)
(* Claims about the admin statistics (checked under SpecAdmin).            *)
(***************************************************************************)
\* C8: the cached overview 'admin:stats:overview', when present, holds the
\* counts of the database, so that get_admin_stats never returns counts that
\* differ from it.
C8_CachedAdminStatsAreCurrent ==
    cache_has(cache, KeyAdminStats) => cache[KeyAdminStats] = AdminStats

(***************************************************************************)
(* Claims about moderation and ownership (checked under SpecModeration).   *)
(***************************************************************************)
\* C11: every tool is created with status pending, and the status of a tool
\* changes only in a successful approve_tool on that tool called by a moderator
\* or admin: no other request changes the status of any tool.
C11_StatusOnlyByModeration ==
    [][/\ \A t \in tools' : (\A old \in tools : old.id # t.id) => t.status = "pending"
       /\ \A old \in tools, t \in tools' :
             (old.id = t.id /\ old.status # t.status)
               => /\ resp'.op = "approve_tool"
                  /\ resp'.status = 200
                  /\ resp'.target = t.id
                  /\ \E u \in users : u.id = resp'.user /\ u.role \in ModeratorRoles]_vars

\* The creator of a tool, who is no moderator, has edited it and it is still
\* pending.
C11_Witness ==
    /\ resp.op = "update_tool"
    /\ resp.status = 200
    /\ UserById(resp.user).role = "user"
    /\ resp.body.created_by = resp.user
    /\ resp.body.name = "tool renamed"
    /\ resp.body.status = "pending"
    /\ resp.body \in tools

\* The caller may write the tool: it is the tool's creator or an admin.
MayWrite(u, t) == ToolById(t).created_by = u.id \/ u.role = "admin"

\* C12: update_tool and delete_tool succeed only for the tool's creator or an
\* admin; for another caller, a moderator included, they fail with 403 and for
\* a missing tool with 404, and a failed request leaves the tools, the cache
\* and the audit log unchanged.
C12_OnlyCreatorOrAdminWrites ==
    [][\A u \in users, t \in ToolIds :
        /\ \A d \in ToolUpdates :
             update_tool(u, t, d) =>
               /\ resp'.status = IF ~ToolExists(t) THEN 404
                                 ELSE IF MayWrite(u, t) THEN 200 ELSE 403
               /\ resp'.status # 200
                    => (tools' = tools /\ cache' = cache /\ audit' = audit)
        /\ delete_tool(u, t) =>
               /\ resp'.status = IF ~ToolExists(t) THEN 404
                                 ELSE IF MayWrite(u, t) THEN 204 ELSE 403
               /\ resp'.status # 204
                    => (tools' = tools /\ cache' = cache /\ audit' = audit)]_vars

\* A moderator's request to delete a tool of another user was refused, with a
\* cached entry in place.
C12_Witness ==
    /\ resp.op = "delete_tool"
    /\ resp.status = 403
    /\ UserById(resp.user).role = "moderator"
    /\ ToolExists(resp.target)
    /\ ToolById(resp.target).created_by # resp.user
    /\ DOMAIN cache # {}

(***************************************************************************)
(* Claims about the audit log (checked under SpecAudit).                   *)
(***************************************************************************)
\* The step appended one entry to the audit log, naming the actor and the
\* entity (the action and the entity type are names the handler picks).
Logged(user_id, entity_id) ==
    /\ Len(audit') = Len(audit) + 1
    /\ audit'[Len(audit')].user_id = user_id
    /\ audit'[Len(audit')].entity_id = entity_id

\* C13: the audit log is append-only and every successful mutating request
\* appends an entry naming the actor, the action and the entity: here a new
\* comment, a vote, the removal of a vote and a password change.
C13_AuditRecordsMutations ==
    [][/\ Len(audit') >= Len(audit)
       /\ SubSeq(audit', 1, Len(audit)) = audit
       /\ \A u \in users, t \in ToolIds :
            /\ \A x \in NewCommentTexts :
                 (create_comment(u, t, x) /\ resp'.status = 201)
                   => Logged(u.id, resp'.target)
            /\ \A c \in CommentIds, v \in VoteTypes :
                 (vote_on_comment(u, t, c, v) /\ resp'.status = 200) => Logged(u.id, c)
            /\ \A c \in CommentIds :
                 (remove_vote(u, t, c) /\ resp'.status = 204) => Logged(u.id, c)
       /\ \A u \in users, p \in Passwords, n \in NewPasswords :
            (change_password(u, p, n) /\ resp'.status = 200) => Logged(u.id, u.id)]_vars

(***************************************************************************)
(* Claims about rating values (checked under SpecRatingValues).            *)
(***************************************************************************)
RECURSIVE SumOver(_, _)
SumOver(f, keys) ==
    IF keys = {} THEN 0
    ELSE LET k == CHOOSE x \in keys : TRUE IN f[k] + SumOver(f, keys \ {k})

\* C14: every stored rating is an integer from 1 to 5, and the statistics
\* get_rating_stats computes on a cache miss have total_ratings equal to the
\* number of rating rows of the tool, rating_distribution[k] equal to the number
\* of rows with value k for k in 1..5, distribution counts that sum to
\* total_ratings, and average 0, total 0 and zero counts for a tool without
\* ratings.
C14_RatingsAndStats ==
    /\ \A r \in ratings : r.rating \in 1..5
    /\ (resp.op = "get_rating_stats" /\ resp.branch = "computed")
         => LET rows == {r \in ratings : r.tool_id = resp.target}
                stats == resp.body IN
            /\ stats.total_ratings = Cardinality(rows)
            /\ DOMAIN stats.rating_distribution = {ToString(k) : k \in 1..5}
            /\ \A k \in 1..5 :
                 stats.rating_distribution[ToString(k)] =
                     Cardinality({r \in rows : r.rating = k})
            /\ SumOver(stats.rating_distribution, DOMAIN stats.rating_distribution)
                   = stats.total_ratings
            /\ rows = {}
                 => /\ stats.average_rating = 0
                    /\ stats.total_ratings = 0
                    /\ \A k \in 1..5 : stats.rating_distribution[ToString(k)] = 0

\* Statistics computed on a miss for a tool with a rating of 1 and a rating of
\* 5: two ratings, one in each of the two counts, average 3.00.
C14_Witness ==
    /\ resp.op = "get_rating_stats"
    /\ resp.branch = "computed"
    /\ resp.body.total_ratings = 2
    /\ resp.body.rating_distribution["1"] = 1
    /\ resp.body.rating_distribution["5"] = 1
    /\ resp.body.average_rating = 300

(***************************************************************************)
(* Claims about roles (checked under SpecRoles).                           *)
(***************************************************************************)
\* C15: update_user_role changes a role only when the caller is an admin and
\* the target is another user, and then the target's role alone; an admin's
\* request on their own id fails with 400, one for a missing user with 404, and
\* neither changes a role nor writes an audit entry.
C15_RoleChangeRules ==
    [][\A cu \in users, i \in PathUserIds, r \in Roles :
        update_user_role(cu, i, r) =>
          /\ users' # users
               => /\ cu.role = "admin"
                  /\ i # cu.id
                  /\ i \in UserIds
                  /\ users' = (users \ {UserById(i)}) \cup {[UserById(i) EXCEPT !.role = r]}
          /\ (cu.role = "admin" /\ i \in UserIds /\ i # cu.id)
               => /\ resp'.status = 200
                  /\ UserIds' = UserIds
                  /\ UserById(i)'.role = r
          /\ (cu.role = "admin" /\ i = cu.id) => resp'.status = 400
          /\ (cu.role = "admin" /\ i \notin UserIds) => resp'.status = 404
          /\ resp'.status # 200 => (users' = users /\ audit' = audit)]_vars

\* An admin's request to change their own role was refused with 400 and the
\* admin is still an admin.
C15_Witness ==
    /\ resp.op = "update_user_role"
    /\ resp.status = 400
    /\ resp.target = resp.user
    /\ resp.arg.new_role = "user"
    /\ UserById(resp.user).role = "admin"

\* C16: no two users share a username and no two users share an email: a
\* register request whose username or email is taken fails with 400 and adds
\* no user and no audit entry, and any other adds one user.
C16_UniqueUsers ==
    [][/\ \A u1, u2 \in users' :
            (u1.username = u2.username \/ u1.email = u2.email) => u1 = u2
       /\ \A n \in Usernames, e \in Emails, p \in NewPasswords :
            register(n, e, p) =>
              IF \E u \in users : u.username = n \/ u.email = e
              THEN /\ resp'.status = 400
                   /\ users' = users
                   /\ audit' = audit
              ELSE /\ resp'.status = 201
                   /\ Cardinality(users') = Cardinality(users) + 1
                   /\ \E u \in users' : u.username = n /\ u.email = e]_vars

\* A registration under a free username with a taken email was refused.
C16_Witness ==
    /\ resp.op = "register"
    /\ resp.status = 400
    /\ resp.body.detail = "Email already registered"
    /\ \A u \in users : u.username # resp.arg.username
    /\ \E u \in users : u.email = resp.arg.email

(***************************************************************************)
(* Claims about comment authorship (checked under SpecCommentAuthors).     *)
(***************************************************************************)
\* The comment is gone after the step.
Deleted(c) == \A c2 \in comments' : c2.id # c.id

\* The caller of the request handled in the step is the author of the comment,
\* or a moderator or admin.
ByAuthorOrModerator(c) ==
    \/ resp'.user = c.user_id
    \/ \E u \in users : u.id = resp'.user /\ u.role \in ModeratorRoles

\* The text of a comment changes only in an update_comment of its author.
TextOnlyByAuthor ==
    \A c \in comments, c2 \in comments' :
        (c2.id = c.id /\ c2.comment # c.comment)
          => (resp'.op = "update_comment" /\ resp'.user = c.user_id)

\* update_comment by another user, and delete_comment by another user who is
\* neither moderator nor admin, fail with 403 and change nothing (resp' is the
\* request the step handled: its caller, the ids of its path and its status).
OthersAreRefused ==
    \A c \in comments :
        (c.id = resp'.target /\ c.user_id # resp'.user)
          => /\ (resp'.op = "update_comment" /\ c.tool_id = resp'.arg.tool_id)
                  => /\ resp'.status = 403
                     /\ comments' = comments /\ votes' = votes
                     /\ cache' = cache /\ audit' = audit
             /\ (resp'.op = "delete_comment" /\ c.tool_id = resp'.arg.tool_id
                    /\ \E u \in users : u.id = resp'.user /\ u.role \notin ModeratorRoles)
                  => /\ resp'.status = 403
                     /\ comments' = comments /\ votes' = votes
                     /\ cache' = cache /\ audit' = audit

\* C17 as stated: a comment's text is changed only by its author and a comment
\* is deleted only by its author or by a moderator or admin; update_comment and
\* delete_comment by anyone else fail with 403 and change nothing.
C17_OnlyAuthorOrModeratorDeletes ==
    [][/\ TextOnlyByAuthor
       /\ \A c \in comments : Deleted(c) => ByAuthorOrModerator(c)
       /\ OthersAreRefused]_vars

\* C17 as amended: a comment's text is changed only by its author, and a comment
\* is deleted only by delete_comment of its author, a moderator or an admin, or
\* with its tool by delete_tool; update_comment and delete_comment by anyone
\* else fail with 403 and change nothing.
C17_DeletedByAuthorModeratorOrWithTool ==
    [][/\ TextOnlyByAuthor
       /\ \A c \in comments :
            Deleted(c)
              => \/ resp'.op = "delete_comment" /\ resp'.target = c.id
                                                /\ ByAuthorOrModerator(c)
                 \/ resp'.op = "delete_tool" /\ resp'.target = c.tool_id
                                             /\ resp'.status = 204
       /\ OthersAreRefused]_vars

\* A moderator's request to edit another user's comment was refused and the
\* comment has its text, with the page of its tool cached.
C17_Witness ==
    /\ resp.op = "update_comment"
    /\ resp.status = 403
    /\ UserById(resp.user).role = "moderator"
    /\ \E c \in comments :
         /\ c.id = resp.target
         /\ c.user_id # resp.user
         /\ c.comment # resp.arg.comment
         /\ cache_has(cache, KeyComments(c.tool_id, 0, 50))

(***************************************************************************)
(* Claims about cached reads (checked under SpecReads).                    *)
(***************************************************************************)
\* The cache key of the read that `resp` records.
KeyOfRead(r) ==
    IF r.op = "get_tools"
    THEN KeyToolsList(r.arg.category, r.arg.status, r.arg.skip, r.arg.limit)
    ELSE IF r.op = "get_tools_stats" THEN KeyToolsStats
    ELSE IF r.op = "get_rating_stats" THEN KeyRatingStats(r.target)
    ELSE KeyComments(r.arg.tool_id, r.arg.skip, r.arg.limit)

\* C18: after a cached read (get_tools, get_tools_stats, get_rating_stats,
\* get_tool_comments) missed the cache and populated it, the same read repeated
\* at once is answered from the cache, whatever the result was, an empty list
\* included: the entry the miss left is one the handler takes as a hit.
C18_RepeatedReadHitsCache ==
    (resp.op \in {"get_tools", "get_tools_stats", "get_rating_stats", "get_tool_comments"}
       /\ resp.branch = "computed")
      => /\ cache_has(cache, KeyOfRead(resp))
         /\ cache[KeyOfRead(resp)] = resp.body
         /\ Cached(cache, KeyOfRead(resp))

(***************************************************************************)
(* Claims about tokens (checked under SpecSession).                        *)
(***************************************************************************)
\* C19: a user with 2FA enabled performs an authenticated operation other than
\* verify_2fa (disable_2fa, change_password, create_tool) only with a full
\* token: never while the pending token that login issued is the only valid
\* token the user holds.
C19_PendingTokenOnlyVerifies ==
    [][\A u \in users :
        (/\ TwoFactorUser(u)
         /\ \/ disable_2fa(u)
            \/ \E p \in Passwords, n \in NewPasswords : change_password(u, p, n)
            \/ \E n \in NewToolNames, c \in NewToolCategories : create_tool(u, n, c))
          => Token(u.username, FALSE) \in tokens]_vars

(***************************************************************************)
(* Claims about interleaved requests (checked under SpecRace).             *)
(***************************************************************************)
\* C20: when two rate_tool requests by the same user for the same tool
\* interleave between the existence check and the insert, at most one rating
\* row of that (user, tool) pair exists once both have finished.
C20_RaceLeavesOneRow ==
    inflight = {}
      => \A u \in UserIds, t \in ToolIds : Cardinality(RatingsOf(u, t)) <= 1

\* C21: when a get_rating_stats request that missed the cache interleaves with
\* a rate_tool or delete_rating request on the same tool, the cache entry
\* 'rating:stats:<tool id>' holds, once no request is under way, the statistics
\* of the ratings stored for the tool.
C21_RaceLeavesCurrentStats ==
    inflight = {}
      => \A t \in ToolIds :
             (ToolExists(t) /\ cache_has(cache, KeyRatingStats(t)))
               => cache[KeyRatingStats(t)] = RatingStats(t)

(***************************************************************************)
(* Claims about the admins (checked under SpecRoles).                      *)
(***************************************************************************)
Admins == {u \in users : u.role = "admin"}

\* C22: with requests handled one at a time and an admin in the initial state,
\* there is at least one user with the admin role after any sequence of
\* update_user_role requests.
C22_AlwaysAnAdmin == Cardinality(Admins) >= 1

\* The admin of the initial state has been demoted by an admin they promoted,
\* who is the one admin left.
C22_Witness ==
    /\ resp.op = "update_user_role"
    /\ resp.status = 200
    /\ resp.target = 2
    /\ resp.arg.new_role \in {"user", "moderator"}
    /\ UserById(2).role = resp.arg.new_role
    /\ Admins = {UserById(resp.user)}

(***************************************************************************)
(* Claims about the notifier and the cached code (checked under SpecAuth). *)
(***************************************************************************)
\* A code verify_2fa would accept is cached for the user.
UsableCode(c, user_id) ==
    cache_has(c, Key2fa(user_id)) /\ c[Key2fa(user_id)].code # ""

\* C23: when the notifier fails to deliver the code, login fails with 500,
\* issues no token, writes no audit entry and leaves no usable 2FA code in the
\* cache for that user.
C23_FailedDeliveryLeavesNoCode ==
    [][\A u \in users, p \in Passwords, c \in Codes :
        (/\ TwoFactorUser(u)
         /\ verify_password(p, u.hashed_password)
         /\ login(u.username, p, c, FALSE))
          => /\ resp'.status = 500
             /\ ~IssuesToken(resp')
             /\ tokens' = tokens
             /\ audit' = audit
             /\ ~UsableCode(cache', u.id)]_vars

(***************************************************************************)
(* Claims about repeated logins (checked under SpecCodes).                 *)
(***************************************************************************)
\* The codes the user has kept from their successful 2FA logins, oldest first.
NotedBy(user_id) == SelectSeq(noted, LAMBDA message : message.to = user_id)

\* The last request was a successful 2FA login of the user, whose code is
\* still cached, and the user has logged in that way before.
AfterSecondLogin(u) ==
    /\ resp.op = "login"
    /\ resp.status = 200
    /\ resp.user = u.id
    /\ resp.body.requires_2fa
    /\ cache_has(cache, Key2fa(u.id))
    /\ Len(NotedBy(u.id)) >= 2

\* C24: each successful 2FA login replaces the user's cached code, and after
\* two logins of the same user verify_2fa accepts only the code of the later
\* login: every other code, the code of the earlier login included where the
\* two differ, is rejected with 401 and gets no token.  (The pending tokens of
\* both logins name the same user, and the handler reads nothing else of them.)
C24_LaterLoginReplacesCode ==
    [][\A u \in users :
        /\ \A p \in Passwords, c \in Codes :
             (login_noting(u.username, p, c, TRUE) /\ resp'.status = 200
                                                  /\ resp'.body.requires_2fa)
               => cache'[Key2fa(u.id)] = [code |-> c]
        /\ \A x \in SubmittedCodes :
             (AfterSecondLogin(u) /\ verify_2fa(u, x))
               => LET mine == NotedBy(u.id)
                      later == mine[Len(mine)].code
                      earlier == mine[Len(mine) - 1].code IN
                  /\ (resp'.status = 200) <=> (x = later)
                  /\ x # later => (resp'.status = 401 /\ ~IssuesToken(resp')
                                                     /\ tokens' = tokens)
                  /\ (x = earlier /\ earlier # later) => resp'.status = 401]_vars

\* After two logins of a user that sent different codes, verify_2fa with the
\* code of the earlier login was rejected with 401 and the code of the later
\* login is the one cached.
C24_Witness ==
    /\ resp.op = "verify_2fa"
    /\ resp.status = 401
    /\ Len(NotedBy(resp.user)) = 2
    /\ resp.arg.code = NotedBy(resp.user)[1].code
    /\ NotedBy(resp.user)[2].code # resp.arg.code
    /\ cache_has(cache, Key2fa(resp.user))
    /\ cache[Key2fa(resp.user)].code = NotedBy(resp.user)[2].code
    /\ Token(UserById(resp.user).username, TRUE) \in tokens

(***************************************************************************)
(* Claims about moving and removing votes (checked under SpecVotes).       *)
(***************************************************************************)
\* The counter of a comment a vote of the type counts in.
CounterOf(comment, vote_type) ==
    IF vote_type = "upvote" THEN comment.upvotes ELSE comment.downvotes

\* The step changed the counters of the comment by `up` and `down` and left
\* its other columns as they were.
Moved(c, up, down) ==
    \E c2 \in comments' :
        /\ c2 = [c EXCEPT !.upvotes = @ + up, !.downvotes = @ + down]
        /\ \A c3 \in comments' : c3.id = c.id => c3 = c2

\* The change of the two counters when a vote of type `old` (NULL for no
\* vote) becomes a vote of type `new` (NULL for no vote).
Delta(old, new, counter) ==
    (IF new = counter THEN 1 ELSE 0) - (IF old = counter THEN 1 ELSE 0)

\* C25: vote_on_comment by a user who has a vote on the comment moves it:
\* switching the type lowers the counter of the old type by one and raises
\* that of the new type by one, the same type again leaves both counters as
\* they are; a first vote raises the counter of its type by one and remove_vote
\* lowers the counter of the removed vote by one, so that a first vote followed
\* by remove_vote restores both counters.
C25_VotesMove ==
    [][\A c \in comments :
        LET mine == VotesOf(c.id, resp'.user)
            new == resp'.arg.vote_type IN
        /\ (resp'.op = "vote_on_comment" /\ resp'.status = 200 /\ resp'.target = c.id)
             => /\ mine = {} => Moved(c, Delta(NULL, new, "upvote"),
                                         Delta(NULL, new, "downvote"))
                /\ \A old \in mine :
                     /\ old.vote_type = new => Moved(c, 0, 0)
                     /\ old.vote_type # new
                          => /\ CounterOf(CHOOSE c2 \in comments' : c2.id = c.id,
                                          old.vote_type)
                                  = CounterOf(c, old.vote_type) - 1
                             /\ CounterOf(CHOOSE c2 \in comments' : c2.id = c.id, new)
                                  = CounterOf(c, new) + 1
                             /\ Moved(c, Delta(old.vote_type, new, "upvote"),
                                         Delta(old.vote_type, new, "downvote"))
        /\ (resp'.op = "remove_vote" /\ resp'.status = 204 /\ resp'.target = c.id)
             => /\ \A old \in mine :
                     Moved(c, Delta(old.vote_type, NULL, "upvote"),
                              Delta(old.vote_type, NULL, "downvote"))
                /\ \A v \in BagToSet(votes') :
                     ~(v.comment_id = c.id /\ v.user_id = resp'.user)
                \* the vote removed is the first vote the user cast in the request before
                /\ (resp.op = "vote_on_comment" /\ resp.branch = "create_vote"
                      /\ resp.user = resp'.user /\ resp.target = c.id)
                     => Moved(c, 0 - Delta(NULL, resp.arg.vote_type, "upvote"),
                                 0 - Delta(NULL, resp.arg.vote_type, "downvote"))]_vars

\* The one vote on a comment was removed: the comment has no vote rows and the
\* counters it had before the vote, both zero.
C25_Witness ==
    /\ resp.op = "remove_vote"
    /\ resp.status = 204
    /\ votes = EmptyBag
    /\ \E c \in comments :
         /\ c.id = resp.target
         /\ c.upvotes = 0
         /\ c.downvotes = 0

(***************************************************************************)
(* Claims about references between tables (checked under SpecIntegrity).   *)
(***************************************************************************)
\* Every rating and comment refers to a tool and every vote to a comment.
Referenced ==
    /\ \A r \in ratings : ToolExists(r.tool_id)
    /\ \A c \in comments : ToolExists(c.tool_id)
    /\ \A v \in BagToSet(votes) : CommentExists(v.comment_id)

\* The step stored nothing and removed nothing.
NothingStored ==
    /\ tools' = tools
    /\ ratings' = ratings
    /\ comments' = comments
    /\ votes' = votes

\* C26: after any sequence of requests handled one at a time every rating and
\* every comment refers to an existing tool and every comment vote to an
\* existing comment: rate_tool and create_comment on a missing tool and
\* vote_on_comment on a missing comment fail with 404 and store nothing, and
\* delete_tool and delete_comment remove the dependent ratings, comments and
\* votes.
C26_ReferencesExist ==
    [][/\ Referenced'
       \* resp' is the request the step handled: its path ids and its status
       /\ (resp'.op = "rate_tool" /\ ~ToolExists(resp'.target))
            => (resp'.status = 404 /\ NothingStored)
       /\ resp'.op = "create_comment"
            => \/ resp'.status = 201 /\ ToolExists(resp'.body.tool_id)
               \/ resp'.status = 404 /\ ~ToolExists(resp'.target) /\ NothingStored
       /\ (resp'.op = "vote_on_comment" /\ ~CommentExists(resp'.target))
            => (resp'.status = 404 /\ NothingStored)
       /\ (resp'.op = "delete_tool" /\ resp'.status = 204)
            => /\ \A r \in ratings' : r.tool_id # resp'.target
               /\ \A c \in comments' : c.tool_id # resp'.target
               /\ \A c \in comments, v \in BagToSet(votes') :
                    c.tool_id = resp'.target => v.comment_id # c.id
       /\ (resp'.op = "delete_comment" /\ resp'.status = 204)
            => \A v \in BagToSet(votes') : v.comment_id # resp'.target]_vars

\* A tool that had a rating and a comment was deleted (the three requests the
\* audit log has room for), and no rating, comment or vote is left.
C26_Witness ==
    /\ resp.op = "delete_tool"
    /\ resp.status = 204
    /\ \E i, j \in 1..Len(audit) :
         /\ i < j /\ j < Len(audit)
         /\ {audit[i].action, audit[j].action} = {"create_rating", "create_comment"}
    /\ audit[Len(audit)].action = "delete"
    /\ audit[Len(audit)].entity_id = resp.target
    /\ ratings = {}
    /\ comments = {}
    /\ votes = EmptyBag

(***************************************************************************)
(* Claims about moderation decisions (checked under SpecDecisions).        *)
(***************************************************************************)
\* The audit entries of the decisions on a tool, oldest first.
Decisions(tool_id) ==
    SelectSeq(audit, LAMBDA e : /\ e.action \in {"approve", "reject"}
                                /\ e.entity_type = "tool"
                                /\ e.entity_id = tool_id)

\* The columns a decision writes agree with the decisions made on the tool.
Decided(t) ==
    LET made == Decisions(t.id) IN
    /\ t.status = "approved" => t.rejection_reason = NULL
    /\ t.status \in {"approved", "rejected"}
         => /\ made # <<>>
            /\ t.approved_by = made[Len(made)].user_id
            /\ made[Len(made)].action = IF t.status = "approved" THEN "approve"
                                        ELSE "reject"
    /\ t.status = "pending"
         => /\ made = <<>>
            /\ t.approved_by = NoId
            /\ t.rejection_reason = NULL

\* C27: in every state a tool whose status is approved has no rejection
\* reason, a tool whose status is approved or rejected has approved_by set to
\* the moderator or admin who made the latest decision, and a pending tool has
\* never been decided; approve_tool by a moderator or admin applies to a tool
\* in any status and overwrites the earlier decision.
C27_DecisionColumns ==
    [][/\ \A t \in tools' : Decided(t)'
       /\ resp'.op = "approve_tool"
            => \A u \in users :
                 (u.id = resp'.user /\ u.role \in ModeratorRoles
                    /\ ToolExists(resp'.target))
                   => /\ resp'.status = 200
                      /\ \E t \in tools' :
                           /\ t.id = resp'.target
                           /\ t.approved_by = u.id
                           /\ t.status = IF resp'.arg.approved THEN "approved"
                                         ELSE "rejected"
                           /\ t.rejection_reason = IF resp'.arg.approved THEN NULL
                                                   ELSE resp'.arg.reason
                           /\ t = resp'.body]_vars

\* A tool that one moderator rejected with a reason was approved by another:
\* it carries no reason and the id of the one who approved it.
C27_Witness ==
    /\ resp.op = "approve_tool"
    /\ resp.status = 200
    /\ resp.arg.approved
    /\ Len(Decisions(resp.target)) = 2
    /\ Decisions(resp.target)[1].action = "reject"
    /\ Decisions(resp.target)[1].user_id # resp.user
    /\ \E t \in tools :
         /\ t.id = resp.target
         /\ t.status = "approved"
         /\ t.rejection_reason = NULL
         /\ t.approved_by = resp.user

====
